---- MODULE Spec2Model ----
(***************************************************************************)
(* GeoDBIterator (xcube_geodb/core/iterator.py): a paginated iterator that *)
(* turns one logical read of a collection into a sequence of bounded page  *)
(* fetches.  The model holds one iterator instance, the keyword-argument   *)
(* dictionary it shares with its caller, the remote collection the Page    *)
(* Fetcher reads, and a record of the fetches of the current pass.         *)
(***************************************************************************)
EXTENDS Integers, Sequences, FiniteSets, TLC

\* ---------------------------------------------------------------- bounds
MaxRows == 4          \* rows the remote collection may hold
MaxCursor == 3        \* fetch steps are taken only while the cursor is below this
MaxStart == 1         \* largest start page a caller passes or assigns
MaxStop == 2          \* largest finite stop page a caller passes or assigns
MaxPageSize == 2      \* largest explicit page size a caller passes or assigns

\* ------------------------------------------------- Python values as integers
\* math.inf, the default of stop_page: larger than every page index
Inf == 1000
\* Python's None, for an argument passed as None
None == -1000
\* the page size used when the caller gives none
DefaultPageSize == 10

Min(a, b) == IF a <= b THEN a ELSE b

\* Python truthiness of an int-or-None value
Truthy(v) == v # None /\ v # 0

\* Python's  `v or d`
PyOr(v, d) == IF Truthy(v) THEN v ELSE d

\* Python's  `a > b`  raises TypeError when an operand is None
GtRaises(a, b) == a = None \/ b = None

\* (variant: the comparison already stops at the stop page itself)
GtOrEqual(a, b) == IF b = Inf THEN FALSE ELSE a >= b

\* (variant: the comparison lets one page more through)
GtOneMore(a, b) == IF b = Inf THEN FALSE ELSE a > b + 1

\* Python's  `a > b`  on numbers, b possibly math.inf
Gt(a, b) == IF b = Inf THEN FALSE ELSE a > b

\* d[k] = v on a Python dict: the key is added or overwritten
DictSet(d, k, v) == [x \in DOMAIN d \cup {k} |-> IF x = k THEN v ELSE d[x]]

\* ------------------------------------------------------------ the collection
\* the ordered unpaginated read of a collection of n rows: ids 1..n
Ids(n) == [j \in 1..n |-> j]

\* rows lo..hi of a table, empty when lo > hi
Slice(t, lo, hi) == [j \in 1..(IF hi >= lo THEN hi - lo + 1 ELSE 0) |-> t[lo + j - 1]]

\* The outcomes of one Page Fetcher call: a remote error is always possible;
\* a request inside the contract (offset >= 0, limit >= 0) can also return
\* the rows offset+1 .. offset+limit of the ordered collection.
PageFetcher(req, t) ==
    {[kind |-> "error", rows |-> <<>>]} \cup
    (IF req.offset >= 0 /\ req.limit >= 0
     THEN {[kind |-> "rows",
            rows |-> Slice(t, req.offset + 1, Min(req.offset + req.limit, Len(t)))]}
     ELSE {})

\* ------------------------------------------------------------------ inputs
\* keyword arguments a caller forwards through the iterator
CallerKwargs ==
    { [collection |-> "land_use", query |-> "order=id"],
      [collection |-> "land_use", query |-> "order=id",
       offset |-> 7, limit |-> 5, iterate |-> TRUE] }

PageSizeArgs == {None, 0, -1} \cup (1..MaxPageSize)
StartPageArgs == {None} \cup (0..MaxStart)
StopPageArgs == {Inf} \cup (0..MaxStop)

\* ------------------------------------------------------------------- state
VARIABLES
    page,        \* self._page: the cursor
    start_page,  \* self._start_page
    stop_page,   \* self._stop_page
    page_size,   \* self._page_size
    kwargs,      \* self._kwargs['kwargs']: the dict object shared with the caller
    supplied,    \* the keyword arguments as the caller supplied them at construction
    table,       \* the remote collection, as its ordered read
    calls,       \* the fetches of the current pass in order (the page index, the
                 \* request, the Page Fetcher's outcome, what __next__ signalled),
                 \* kept as long as the pass runs under the tunables it began with
    last,        \* what the most recent __init__, __iter__ or __next__ call did
    stopped,     \* StopIteration has been raised in the current pass
    tuned,       \* a tunable was changed since the current pass began
    mutated,     \* the collection was changed since the current pass began
    prev,        \* the requests of the pass before this one, kept while the
                 \* tunables stay as they were in that pass
    other,       \* a second GeoDBIterator instance, when the caller constructed one
    whoami,      \* GeoDBClient._whoami: the cached user name
    capabilities, \* GeoDBClient._capabilities: the cached server capabilities
    server,      \* the datasets and stored procedures the server has
    sent,        \* the HTTP requests the latest client call issued, in order
    result       \* the latest client call: its arguments and how it ended

\* the variables of a GeoDBIterator and its collection
ivars == <<page, start_page, stop_page, page_size, kwargs, supplied, table,
           calls, last, stopped, tuned, mutated, prev, other>>

\* the variables of a GeoDBClient and its server
cvars == <<whoami, capabilities, server, sent, result>>

vars == <<ivars, cvars>>

NoResult == <<>>

\* no call of the Page Fetcher was made
NoOutcome == [kind |-> "none", rows |-> <<>>]

\* no earlier pass to compare with
NoPrev == [known |-> FALSE, clean |-> FALSE, reqs |-> <<>>]

\* no second instance was constructed
NoOther == [present |-> FALSE]

\* no GeoDBClient call was made
NoCall == [op |-> "none"]

\* Python None where a string is expected
NoStr == "None"

\* self._capabilities = None
NoCapabilities == [cached |-> FALSE, definitions |-> {}, properties |-> {}, paths |-> {}]

\* the iterator runs without a GeoDBClient of this module
NoClient ==
    /\ whoami = NoStr
    /\ capabilities = NoCapabilities
    /\ server = [definitions |-> {}, properties |-> {}, paths |-> {}]
    /\ sent = <<>>
    /\ result = NoCall

\* GeoDBIterator.__init__ called with page_size ps, start_page sp, stop_page tp:
\* the instance as constructed, before any other call
init_(ps, sp, tp) ==
    /\ page = PyOr(sp, 0)
    /\ start_page = sp
    /\ stop_page = tp
    /\ page_size = PyOr(ps, DefaultPageSize)
    /\ calls = <<>>
    /\ last = [op |-> "init", kind |-> "ok", fetched |-> FALSE,
               out |-> NoOutcome, res |-> NoResult]
    /\ stopped = FALSE
    /\ tuned = FALSE
    /\ mutated = FALSE
    /\ prev = NoPrev

\* a new iterator over a collection of 0..MaxRows rows
Init ==
    /\ \E ps \in PageSizeArgs, sp \in StartPageArgs, tp \in StopPageArgs :
          init_(ps, sp, tp)
    /\ kwargs \in CallerKwargs
    /\ supplied = kwargs
    /\ \E n \in 0..MaxRows : table = Ids(n)
    /\ other = NoOther
    /\ NoClient

\* (variant: a caller-supplied offset or limit is kept instead of overwritten)
RequestKeepsSupplied(kw, pg, ps) ==
    LET off == IF "offset" \in DOMAIN kw THEN kw.offset ELSE pg * ps
        lim == IF "limit" \in DOMAIN kw THEN kw.limit ELSE ps
    IN  DictSet(DictSet(DictSet(kw, "offset", off), "limit", lim), "iterate", FALSE)

\* (variant: an iterate flag of the caller is kept instead of overwritten)
RequestKeepsIterate(kw, pg, ps) ==
    LET it == IF "iterate" \in DOMAIN kw THEN kw.iterate ELSE FALSE
    IN  DictSet(DictSet(DictSet(kw, "offset", pg * ps), "limit", ps), "iterate", it)

\* (variant: the request is built with a query of the iterator's own)
RequestRewritesQuery(kw, pg, ps) ==
    DictSet(DictSet(DictSet(DictSet(kw, "query", ""), "offset", pg * ps),
                    "limit", ps), "iterate", FALSE)

\* the keyword arguments __next__ hands to the Page Fetcher for page pg
Request(kw, pg, ps) ==
    DictSet(DictSet(DictSet(kw, "offset", pg * ps), "limit", ps), "iterate", FALSE)

\* (variant: the emptiness test rejects a page of one row)
HasRowsMoreThanOne(res) == Len(res) > 1

\* (variant: the emptiness test accepts a result without rows)
HasRowsOrNone(res) == Len(res) >= 0

\* the test that decides between yielding and StopIteration
HasRows(res) == Len(res) > 0

\* (variant: an error of the fetch is caught and taken for the end of the data)
SignalSwallowsError(out) ==
    IF out.kind = "error" THEN "StopIteration"
    ELSE IF HasRows(out.rows) THEN "yield"
    ELSE "StopIteration"

\* what __next__ does with the outcome of the fetch: an error propagates,
\* a result with rows is returned, a result without rows ends the iteration
Signal(out) ==
    IF out.kind = "error" THEN "error"
    ELSE IF HasRows(out.rows) THEN "yield"
    ELSE "StopIteration"

\* (variant: the cursor advances only when the fetch produced rows)
next_advances_on_rows ==
    IF GtRaises(page, stop_page)
    THEN /\ last' = [op |-> "next", kind |-> "TypeError", fetched |-> FALSE,
                     out |-> NoOutcome, res |-> NoResult]
         /\ UNCHANGED <<page, start_page, stop_page, page_size, kwargs, supplied, other, cvars, table,
                        calls, stopped, tuned, mutated, prev>>
    ELSE IF Gt(page, stop_page)
    THEN /\ last' = [op |-> "next", kind |-> "StopIteration", fetched |-> FALSE,
                     out |-> NoOutcome, res |-> NoResult]
         /\ stopped' = TRUE
         /\ UNCHANGED <<page, start_page, stop_page, page_size, kwargs, supplied, other, cvars, table,
                        calls, tuned, mutated, prev>>
    ELSE /\ page < MaxCursor
         /\ LET req == Request(kwargs, page, page_size) IN
            /\ kwargs' = req
            /\ \E out \in PageFetcher(req, table) :
                 LET kind == Signal(out) IN
                 /\ page' = IF kind = "yield" THEN page + 1 ELSE page
                 /\ calls' = IF tuned THEN calls
                             ELSE Append(calls, [page |-> page, req |-> req,
                                                 out |-> out, kind |-> kind])
                 /\ last' = [op |-> "next", kind |-> kind, fetched |-> TRUE, out |-> out,
                             res |-> IF kind = "yield" THEN out.rows ELSE NoResult]
                 /\ stopped' = (stopped \/ kind = "StopIteration")
         /\ UNCHANGED <<start_page, stop_page, page_size, supplied, other, cvars, table, tuned, mutated, prev>>

\* GeoDBIterator.__next__
next_ ==
    IF GtRaises(page, stop_page)
    THEN /\ last' = [op |-> "next", kind |-> "TypeError", fetched |-> FALSE,
                     out |-> NoOutcome, res |-> NoResult]
         /\ UNCHANGED <<page, start_page, stop_page, page_size, kwargs, supplied, other, cvars, table,
                        calls, stopped, tuned, mutated, prev>>
    ELSE IF Gt(page, stop_page)
    THEN /\ last' = [op |-> "next", kind |-> "StopIteration", fetched |-> FALSE,
                     out |-> NoOutcome, res |-> NoResult]
         /\ stopped' = TRUE
         /\ UNCHANGED <<page, start_page, stop_page, page_size, kwargs, supplied, other, cvars, table,
                        calls, tuned, mutated, prev>>
    ELSE /\ page < MaxCursor
         /\ page' = page + 1
         /\ LET req == Request(kwargs, page, page_size) IN
            /\ kwargs' = req
            /\ \E out \in PageFetcher(req, table) :
                 LET kind == Signal(out) IN
                 /\ calls' = IF tuned THEN calls
                             ELSE Append(calls, [page |-> page, req |-> req,
                                                 out |-> out, kind |-> kind])
                 /\ last' = [op |-> "next", kind |-> kind, fetched |-> TRUE, out |-> out,
                             res |-> IF kind = "yield" THEN out.rows ELSE NoResult]
                 /\ stopped' = (stopped \/ kind = "StopIteration")
         /\ UNCHANGED <<start_page, stop_page, page_size, supplied, other, cvars, table, tuned, mutated, prev>>

\* the (offset, limit) pairs of a sequence of fetches
Pairs(cs) == [i \in 1..Len(cs) |-> <<cs[i].req.offset, cs[i].req.limit>>]

\* no fetch of the pass raised an error
NoError(cs) == \A i \in 1..Len(cs) : cs[i].out.kind # "error"

\* the consumer ran the pass to its first StopIteration and made no call after it
Completed ==
    /\ stopped
    /\ last.op = "next" /\ last.kind = "StopIteration"
    /\ \A i \in 1..(Len(calls) - 1) : calls[i].kind # "StopIteration"

\* (variant: entering iteration leaves the cursor where it is)
iter_keeps_cursor ==
    /\ prev' = IF Completed /\ ~tuned
               THEN [known |-> TRUE, clean |-> ~mutated /\ NoError(calls), reqs |-> Pairs(calls)]
               ELSE NoPrev
    /\ page' = page
    /\ calls' = <<>>
    /\ stopped' = FALSE
    /\ tuned' = FALSE
    /\ mutated' = FALSE
    /\ last' = [op |-> "iter", kind |-> "ok", fetched |-> FALSE,
                out |-> NoOutcome, res |-> NoResult]
    /\ UNCHANGED <<start_page, stop_page, page_size, kwargs, supplied, other, cvars, table>>

\* GeoDBIterator.__iter__
iter_ ==
    /\ prev' = IF Completed /\ ~tuned
               THEN [known |-> TRUE, clean |-> ~mutated /\ NoError(calls), reqs |-> Pairs(calls)]
               ELSE NoPrev
    /\ page' = start_page
    /\ calls' = <<>>
    /\ stopped' = FALSE
    /\ tuned' = FALSE
    /\ mutated' = FALSE
    /\ last' = [op |-> "iter", kind |-> "ok", fetched |-> FALSE,
                out |-> NoOutcome, res |-> NoResult]
    /\ UNCHANGED <<start_page, stop_page, page_size, kwargs, supplied, other, cvars, table>>

Tuning(s, t, p) == tuned \/ <<s, t, p>> # <<start_page, stop_page, page_size>>

\* GeoDBIterator.start_page getter
get_start_page == start_page

\* GeoDBIterator.stop_page getter
get_stop_page == stop_page

\* GeoDBIterator.page_size getter
get_page_size == page_size

\* (variant: assigning the start page also puts the cursor on it)
set_start_page_moves_cursor(value) ==
    /\ start_page' = value
    /\ page' = value
    /\ tuned' = Tuning(value, stop_page, page_size)
    /\ prev' = IF tuned' THEN NoPrev ELSE prev
    /\ calls' = IF tuned' THEN <<>> ELSE calls
    /\ UNCHANGED <<stop_page, page_size, kwargs, supplied, other, cvars, table, last, stopped, mutated>>

\* GeoDBIterator.start_page setter, called with value
set_start_page_to(value) ==
    /\ start_page' = value
    /\ tuned' = Tuning(value, stop_page, page_size)
    /\ prev' = IF tuned' THEN NoPrev ELSE prev
    /\ calls' = IF tuned' THEN <<>> ELSE calls
    /\ UNCHANGED <<page, stop_page, page_size, kwargs, supplied, other, cvars, table, last, stopped, mutated>>

\* GeoDBIterator.start_page setter
set_start_page == \E value \in 0..MaxStart : set_start_page_to(value)

\* GeoDBIterator.stop_page setter, called with value: it assigns _start_page
set_stop_page_to(value) ==
    /\ start_page' = value
    /\ tuned' = Tuning(value, stop_page, page_size)
    /\ prev' = IF tuned' THEN NoPrev ELSE prev
    /\ calls' = IF tuned' THEN <<>> ELSE calls
    /\ UNCHANGED <<page, stop_page, page_size, kwargs, supplied, other, cvars, table, last, stopped, mutated>>

\* GeoDBIterator.stop_page setter
set_stop_page == \E value \in 0..MaxStop : set_stop_page_to(value)

\* GeoDBIterator.page_size setter, called with value
set_page_size_to(value) ==
    /\ page_size' = value
    /\ tuned' = Tuning(start_page, stop_page, value)
    /\ prev' = IF tuned' THEN NoPrev ELSE prev
    /\ calls' = IF tuned' THEN <<>> ELSE calls
    /\ UNCHANGED <<page, start_page, stop_page, kwargs, supplied, other, cvars, table, last, stopped, mutated>>

\* GeoDBIterator.page_size setter
set_page_size == \E value \in 1..MaxPageSize : set_page_size_to(value)

\* another client inserts a row into, or deletes the last row of, the collection
Mutate ==
    /\ \/ /\ Len(table) < MaxRows
          /\ table' = Append(table, Len(table) + 1)
       \/ /\ Len(table) > 0
          /\ table' = Slice(table, 1, Len(table) - 1)
    /\ mutated' = TRUE
    /\ UNCHANGED <<page, start_page, stop_page, page_size, kwargs, supplied, other, cvars, calls, last,
                   stopped, tuned, prev>>

Next == next_ \/ iter_ \/ set_stop_page \/ set_start_page \/ set_page_size \/ Mutate

Spec == Init /\ [][Next]_vars

\* ------------------------------------------------------- one consumer loop
\* `for page in it`: the consumer enters iteration on a new instance, or again
\* after a pass that ended or failed, and then keeps calling __next__
for_iter ==
    /\ last.op = "init" \/ stopped \/ last.kind \in {"error", "TypeError"}
    /\ iter_

NextFor == for_iter \/ next_

\* the consumer does not abandon a pass: it goes on calling __next__
SpecFor == Init /\ [][NextFor]_vars /\ WF_vars(next_)

\* ------------------------------------------------- two instances, one caller
\* (variant: the cursor is an attribute of the class, shared by all instances)
OtherCursorShared == page

\* self._page of the second instance
OtherCursor == other.page

\* GeoDBIterator.__init__ of the second instance; shares tells whether the
\* caller forwards the same keyword dictionary to both instances
other_init(ps, sp, tp, shares) ==
    other = [present |-> TRUE, shares |-> shares,
             page |-> PyOr(sp, 0), start_page |-> sp, stop_page |-> tp,
             page_size |-> PyOr(ps, DefaultPageSize),
             kwargs |-> supplied, calls |-> <<>>]

\* the arguments (page_size, start_page, stop_page) of the second instance
OtherArgs == {<<1, MaxStart, Inf>>, <<MaxPageSize, 0, MaxStop>>}

\* two iterators constructed by one caller over the same collection of
\* MaxRows rows
InitTwo ==
    /\ \E ps \in 1..MaxPageSize, sp \in 0..MaxStart, tp \in {Inf, MaxStop} :
          init_(ps, sp, tp)
    /\ kwargs \in CallerKwargs
    /\ supplied = kwargs
    /\ table = Ids(MaxRows)
    /\ \E a \in OtherArgs, shares \in BOOLEAN : other_init(a[1], a[2], a[3], shares)
    /\ NoClient

\* self._kwargs['kwargs'] of the second instance
OtherKwargs == IF other.shares THEN kwargs ELSE other.kwargs

\* GeoDBIterator.__next__ of the second instance
other_next ==
    LET pg == OtherCursor IN
    IF GtRaises(pg, other.stop_page) \/ Gt(pg, other.stop_page)
    THEN UNCHANGED vars
    ELSE /\ pg < MaxCursor
         /\ LET req == Request(OtherKwargs, pg, other.page_size) IN
            \E out \in PageFetcher(req, table) :
                /\ other' = [other EXCEPT
                                !.page = pg + 1,
                                !.kwargs = IF other.shares THEN @ ELSE req,
                                !.calls = Append(@, [page |-> pg, req |-> req,
                                                     out |-> out, kind |-> Signal(out)])]
                /\ kwargs' = IF other.shares THEN req ELSE kwargs
         /\ UNCHANGED <<page, start_page, stop_page, page_size, supplied, table,
                        calls, last, stopped, tuned, mutated, prev, cvars>>

\* GeoDBIterator.__iter__ of the second instance
other_iter ==
    /\ other' = [other EXCEPT !.page = other.start_page, !.calls = <<>>]
    /\ UNCHANGED <<page, start_page, stop_page, page_size, kwargs, supplied, table,
                   calls, last, stopped, tuned, mutated, prev, cvars>>

NextTwo == next_ \/ iter_ \/ other_next \/ other_iter

SpecTwo == InitTwo /\ [][NextTwo]_vars

\* ------------------------------------------------------------- GeoDBClient
\* Python None where a dict is expected
NoneDict == ("None" :> "None")

\* the empty dict
EmptyDict == [k \in {} |-> ""]

\* truth value of a dict or None
TruthyDict(d) == d # NoneDict /\ DOMAIN d # {}

\* truth value of a string or None
TruthyStr(x) == x # NoStr /\ x # ""

\* d after d.update(u)
DictUpdate(d, u) == [k \in DOMAIN d \cup DOMAIN u |-> IF k \in DOMAIN u THEN u[k] ELSE d[k]]

\* (variant: the key is left in the dict)
DictDelNothing(d, key) == d

\* d after del d[key]
DictDel(d, key) == [k \in DOMAIN d \ {key} |-> d[k]]

\* GeoDBClient.common_headers, with the access token obtained for it
CommonHeaders ==
    ("Prefer" :> "return=representation") @@
    ("Content-type" :> "application/json") @@
    ("Authorization" :> "Bearer token")

\* f"{prefix}_{dataset}"
Dn(prefix, dataset) == <<prefix, dataset>>

NoDn == Dn(NoStr, NoStr)

\* request paths: the API root, a stored procedure, a dataset (with a query
\* string or without), the token endpoint of the authentication service
RootPath == [to |-> "root", rpc |-> NoStr, dn |-> NoDn, query |-> NoStr]
RpcPath(name) == [to |-> "rpc", rpc |-> name, dn |-> NoDn, query |-> NoStr]
TablePath(dn, query) == [to |-> "table", rpc |-> NoStr, dn |-> dn, query |-> query]
TokenPath == [to |-> "oauth", rpc |-> NoStr, dn |-> NoDn, query |-> NoStr]

\* the user name the server answers /rpc/geodb_whoami with
ServerUser == "helge"

\* no request body
NoPayload == [type |-> "none"]

\* a client call in progress: the caches, the requests issued so far, the
\* exception raised (if any) and the value the latest step returned
StartCall ==
    [whoami |-> whoami, capabilities |-> capabilities, sent |-> <<>>,
     raised |-> "none", msg |-> "", ret |-> [type |-> "none"]]

\* f'Format {type(values)} not supported.'
FormatMsg(type) ==
    CASE type = "list" -> "Format <class 'list'> not supported."
      [] type = "DataFrame" -> "Format <class 'pandas.core.frame.DataFrame'> not supported."
      [] OTHER -> "Format not supported."

\* f"Dataset {dataset} does not exist"
DoesNotExistMsg == "Dataset does not exist"

\* raise an exception
Raise(r, kind, msg) == [r EXCEPT !.raised = kind, !.msg = msg]

\* return a value
Return(r, value) == [r EXCEPT !.ret = value]

\* run step F after the steps that gave the runs S, unless they raised
Bind(S, F(_)) == UNION {IF r.raised # "none" THEN {r} ELSE F(r) : r \in S}

\* the stored procedures that change the schema
SchemaProcedures ==
    {"geodb_create_datasets", "geodb_drop_datasets", "geodb_add_properties",
     "geodb_drop_properties"}

\* what the server can answer to a request: an error status, or success;
\* a successful query of a dataset or of a filter procedure carries no row,
\* or one row with a geometry column or without
ServerReplies(path) ==
    {[status |-> "error", rows |-> 0, geometry |-> FALSE],
     [status |-> "ok", rows |-> 0, geometry |-> FALSE]} \cup
    (IF path.to = "table" \/
        (path.to = "rpc" /\ path.rpc \notin {"geodb_whoami"} \cup SchemaProcedures)
     THEN {[status |-> "ok", rows |-> 1, geometry |-> g] : g \in BOOLEAN}
     ELSE {})

\* the request sent and the reply it got
Exchange(method, path, headers, payload, reply) ==
    [method |-> method, path |-> path, headers |-> headers, payload |-> payload,
     reply |-> reply]

\* (variant: an error status is taken for a reply without rows)
SendSwallowsError(r, method, path, headers, payload, errkind) ==
    {Return([r EXCEPT !.sent = Append(@, Exchange(method, path, headers, payload, reply))],
            [type |-> "response",
             rows |-> IF reply.status = "ok" THEN reply.rows ELSE 0,
             geometry |-> reply.geometry]) : reply \in ServerReplies(path)}

\* requests.<method>(...) followed by r.raise_for_status(): the request is
\* sent; an error status raises the exception errkind
Send(r, method, path, headers, payload, errkind) ==
    {LET r1 == [r EXCEPT !.sent = Append(@, Exchange(method, path, headers, payload, reply))]
     IN  IF reply.status = "ok"
         THEN Return(r1, [type |-> "response", rows |-> reply.rows, geometry |-> reply.geometry])
         ELSE Raise(r1, errkind, "server error") : reply \in ServerReplies(path)}

\* GeoDBClient.auth_access_token: no token is ever stored, so every read of
\* common_headers posts to the token endpoint
auth_access_token(r) ==
    Send(r, "POST", TokenPath, ("content-type" :> "application/json"),
         [type |-> "credentials"], "HTTPError")

\* self.common_headers.update(headers) if headers else self.common_headers:
\* dict.update returns None
MergedHeaders(headers) ==
    IF TruthyDict(headers) THEN NoneDict ELSE CommonHeaders

\* GeoDBClient.get
Get(r, path, headers) ==
    Bind(auth_access_token(r),
         LAMBDA r1 : Send(r1, "GET", path, MergedHeaders(headers), NoPayload, "GeoDBError"))

\* GeoDBClient.delete
Delete(r, path, headers) ==
    Bind(auth_access_token(r),
         LAMBDA r1 : Send(r1, "DELETE", path, MergedHeaders(headers), NoPayload, "GeoDBError"))

\* GeoDBClient.patch
Patch(r, path, payload, headers) ==
    Bind(auth_access_token(r),
         LAMBDA r1 : Send(r1, "PATCH", path, MergedHeaders(headers), payload, "GeoDBError"))

\* GeoDBClient.post
Post(r, path, payload, headers) ==
    Bind(auth_access_token(r),
         LAMBDA r1 : Send(r1, "POST", path,
                          IF headers # NoneDict THEN DictUpdate(CommonHeaders, headers)
                          ELSE CommonHeaders,
                          payload, "GeoDBError"))

\* GeoDBClient.whoami
get_whoami(r) ==
    IF r.whoami # NoStr THEN {r}
    ELSE Bind(Get(r, RpcPath("geodb_whoami"), NoneDict),
              LAMBDA r1 : {[r1 EXCEPT !.whoami = ServerUser]})

\* GeoDBClient.capabilities
get_capabilities(r) ==
    IF r.capabilities.cached THEN {r}
    ELSE Bind(Get(r, RootPath, NoneDict),
              LAMBDA r1 : {[r1 EXCEPT !.capabilities =
                               [cached |-> TRUE, definitions |-> server.definitions,
                                properties |-> server.properties,
                                paths |-> server.paths]]})

\* (variant: the check lets every dataset name pass)
raise_for_dataset_exists_passes(r, dn) == get_capabilities(r)

\* GeoDBClient._raise_for_dataset_exists
raise_for_dataset_exists(r, dn) ==
    Bind(get_capabilities(r),
         LAMBDA r1 : IF dn \in r1.capabilities.definitions THEN {r1}
                     ELSE {Raise(r1, "ValueError", DoesNotExistMsg)})

\* GeoDBClient._raise_for_stored_procedure_exists
raise_for_stored_procedure_exists(r, name) ==
    Bind(get_capabilities(r),
         LAMBDA r1 : IF name \in r1.capabilities.paths THEN {r1}
                     ELSE {Raise(r1, "ValueError", "Stored procedure does not exist")})

\* GeoDBClient._refresh_capabilities
refresh_capabilities(r) == {[r EXCEPT !.capabilities = NoCapabilities]}

\* GeoDBClient._mandatory_properties
mandatory_properties == {"geometry", "id", "created_at", "modified_at"}

\* (variant: no column is protected)
raise_for_mandatory_columns_passes(r, properties) == {r}

\* GeoDBClient._raise_for_mandatory_columns
raise_for_mandatory_columns(r, properties) ==
    IF properties \cap mandatory_properties # {}
    THEN {Raise(r, "ValueError", "Don't delete the following columns")}
    ELSE {r}

\* GeoDBClient.create_datasets
CreateDatasets(r, datasets) ==
    Bind(refresh_capabilities(r), LAMBDA r1 :
    Bind(Post(r1, RpcPath("geodb_create_datasets"),
              [type |-> "create", datasets |-> datasets], NoneDict),
         LAMBDA r2 : {Return(r2, [type |-> "str", text |-> "added"])}))

\* GeoDBClient.create_dataset
CreateDataset(r, dataset, properties) ==
    Bind(refresh_capabilities(r), LAMBDA r1 :
        CreateDatasets(r1, {[name |-> dataset, properties |-> properties]}))

\* GeoDBClient.drop_datasets
DropDatasets(r, datasets) ==
    Bind(refresh_capabilities(r), LAMBDA r1 :
    Bind(Post(r1, RpcPath("geodb_drop_datasets"),
              [type |-> "drop", datasets |-> datasets], NoneDict),
         LAMBDA r2 : {Return(r2, [type |-> "str", text |-> "deleted"])}))

\* GeoDBClient.drop_dataset
DropDataset(r, dataset) ==
    Bind(refresh_capabilities(r), LAMBDA r1 :
    Bind(Post(r1, RpcPath("geodb_drop_datasets"),
              [type |-> "drop", datasets |-> {dataset}], NoneDict),
         LAMBDA r2 : {Return(r2, [type |-> "str", text |-> "deleted"])}))

\* GeoDBClient.add_properties
AddProperties(r, dataset, properties) ==
    Bind(refresh_capabilities(r), LAMBDA r1 :
    Bind(Post(r1, RpcPath("geodb_add_properties"),
              [type |-> "add", dataset |-> dataset, properties |-> properties], NoneDict),
         LAMBDA r2 : {Return(r2, [type |-> "str", text |-> "Properties added"])}))

\* GeoDBClient.add_property
AddProperty(r, dataset, prop) == AddProperties(r, dataset, {prop})

\* GeoDBClient.drop_properties
DropProperties(r, dataset, properties) ==
    Bind(refresh_capabilities(r), LAMBDA r1 :
    Bind(raise_for_mandatory_columns(r1, properties), LAMBDA r2 :
    Bind(raise_for_stored_procedure_exists(r2, "geodb_drop_properties"), LAMBDA r3 :
    Bind(Post(r3, RpcPath("geodb_drop_properties"),
              [type |-> "dropprops", dataset |-> dataset, properties |-> properties],
              NoneDict),
         LAMBDA r4 : {Return(r4, [type |-> "str", text |-> "dropped"])}))))

\* GeoDBClient.drop_property
DropProperty(r, dataset, prop) == DropProperties(r, dataset, {prop})

\* GeoDBClient._df_from_json
df_from_json(js) ==
    [type |-> IF js.geometry THEN "GeoDataFrame" ELSE "DataFrame",
     rows |-> js.rows, columns |-> IF js.geometry THEN {"id", "geometry"} ELSE {"id"}]

\* DataFrame(columns=["Empty Result"]) and its GeoDataFrame counterpart
EmptyResult(type) == [type |-> type, rows |-> 0, columns |-> {"Empty Result"}]

\* GeoDBClient.update_dataset
UpdateDataset(r, dataset, values, query) ==
    Bind(get_whoami(r), LAMBDA r1 :
    Bind(raise_for_dataset_exists(r1, Dn(r1.whoami, dataset)), LAMBDA r2 :
        IF values.type = "dict"
        THEN Bind(Patch(r2, TablePath(Dn(r1.whoami, dataset), query),
                        [type |-> "dict", items |-> DictDel(values.items, "id")], NoneDict),
                  LAMBDA r3 : {Return(r3, [type |-> "str", text |-> "updated"])})
        ELSE {Raise(r2, "ValueError", FormatMsg(values.type))}))

\* str.lower on a column name
Lower(c) == IF c = "ID" THEN "id" ELSE c

\* GeoDBClient._gdf_to_csv
gdf_to_csv(r, gpdf, crs) ==
    IF crs = NoStr /\ gpdf.crs = NoStr
    THEN {Raise(r, "ValueError", "Could not guess the dataframe's crs. Please specify.")}
    ELSE {Return(r, [type |-> "csv", columns |-> gpdf.columns,
                     srid |-> IF crs = NoStr THEN gpdf.crs ELSE crs])}

\* GeoDBClient.insert_into_dataset
InsertIntoDataset(r, dataset, values, upsert, crs) ==
    IF values.type \notin {"GeoDataFrame", "DataFrame"}
    THEN {Raise(r, "AttributeError", "object has no attribute 'columns'")}
    ELSE
    LET lowered == [values EXCEPT !.columns = {Lower(c) : c \in @}]
        headers == IF upsert
                   THEN ("Content-type" :> "text/csv") @@ ("Prefer" :> "resolution=merge-duplicates")
                   ELSE ("Content-type" :> "text/csv")
    IN  Bind(get_whoami(r), LAMBDA r1 :
            IF lowered.type = "GeoDataFrame"
            THEN Bind(gdf_to_csv(r1, lowered, crs), LAMBDA r2 :
                 Bind(Post(r2, TablePath(Dn(r1.whoami, dataset), NoStr), r2.ret, headers),
                      LAMBDA r3 : {Return(r3, [type |-> "str", text |-> "inserted"])}))
            ELSE {Raise(r1, "ValueError", FormatMsg(lowered.type))})

\* namespace or self.whoami
TabPrefix(r, namespace) ==
    IF TruthyStr(namespace) THEN {Return(r, [type |-> "str", text |-> namespace])}
    ELSE Bind(get_whoami(r), LAMBDA r1 : {Return(r1, [type |-> "str", text |-> r1.whoami])})

\* GeoDBClient.filter
Filter(r, dataset, query, namespace) ==
    Bind(TabPrefix(r, namespace), LAMBDA r1 :
    Bind(raise_for_dataset_exists(r1, Dn(r1.ret.text, dataset)), LAMBDA r2 :
    Bind(Get(r2, TablePath(Dn(r1.ret.text, dataset),
                           IF TruthyStr(query) THEN query ELSE NoStr), NoneDict),
         LAMBDA r3 : {Return(r3, IF r3.ret.rows > 0 THEN df_from_json(r3.ret)
                                 ELSE EmptyResult("DataFrame"))})))

\* GeoDBClient.filter_by_bbox
FilterByBbox(r, dataset, limit, offset, namespace) ==
    Bind(TabPrefix(r, namespace), LAMBDA r1 :
    Bind(raise_for_dataset_exists(r1, Dn(r1.ret.text, dataset)), LAMBDA r2 :
    Bind(raise_for_stored_procedure_exists(r2, "geodb_filter_by_bbox"), LAMBDA r3 :
    Bind(Post(r3, RpcPath("geodb_filter_by_bbox"),
              [type |-> "bbox", dataset |-> Dn(r1.ret.text, dataset),
               limit |-> limit, offset |-> offset],
              ("Accept" :> "application/vnd.pgrst.object+json")),
         LAMBDA r4 : {Return(r4, IF r4.ret.rows > 0 THEN df_from_json(r4.ret)
                                 ELSE EmptyResult("GeoDataFrame"))}))))

\* (variant: the OFFSET clause is written whenever an offset is given)
RawQueryOffsetAlone(dn, select, where, group, order, limit, offset) ==
    <<[kw |-> "SELECT", text |-> select, dn |-> dn]>>
    \o (IF TruthyStr(where) THEN <<[kw |-> "WHERE", text |-> where]>> ELSE <<>>)
    \o (IF TruthyStr(group) THEN <<[kw |-> "GROUP BY", text |-> group]>> ELSE <<>>)
    \o (IF TruthyStr(order) THEN <<[kw |-> "ORDER BY", text |-> order]>> ELSE <<>>)
    \o (IF Truthy(limit) THEN <<[kw |-> "LIMIT", num |-> limit]>> ELSE <<>>)
    \o (IF Truthy(offset) THEN <<[kw |-> "OFFSET", num |-> offset]>> ELSE <<>>)

\* the SQL text filter_raw assembles, clause by clause
RawQuery(dn, select, where, group, order, limit, offset) ==
    <<[kw |-> "SELECT", text |-> select, dn |-> dn]>>
    \o (IF TruthyStr(where) THEN <<[kw |-> "WHERE", text |-> where]>> ELSE <<>>)
    \o (IF TruthyStr(group) THEN <<[kw |-> "GROUP BY", text |-> group]>> ELSE <<>>)
    \o (IF TruthyStr(order) THEN <<[kw |-> "ORDER BY", text |-> order]>> ELSE <<>>)
    \o (IF Truthy(limit) THEN <<[kw |-> "LIMIT", num |-> limit]>> ELSE <<>>)
    \o (IF Truthy(limit) /\ Truthy(offset) THEN <<[kw |-> "OFFSET", num |-> offset]>> ELSE <<>>)

\* GeoDBClient.filter_raw
FilterRaw(r, dataset, select, where, group, order, limit, offset, namespace) ==
    Bind(TabPrefix(r, namespace), LAMBDA r1 :
    Bind(raise_for_dataset_exists(r1, Dn(r1.ret.text, dataset)), LAMBDA r2 :
    Bind(raise_for_stored_procedure_exists(r2, "geodb_filter_raw"), LAMBDA r3 :
    Bind(Post(r3, RpcPath("geodb_filter_raw"),
              [type |-> "raw", dataset |-> dataset,
               qry |-> RawQuery(Dn(r1.ret.text, dataset), select, where, group, order,
                                limit, offset)],
              ("Accept" :> "application/vnd.pgrst.object+json")),
         LAMBDA r4 : {Return(r4, IF r4.ret.rows > 0 THEN df_from_json(r4.ret)
                                 ELSE EmptyResult("DataFrame"))}))))

\* ------------------------------------------------- calls of a GeoDBClient
\* datasets a caller names; tt is the one the server may have
Datasets == {"tt", "nope"}

\* namespaces a caller names
Namespaces == {NoStr, "public"}

\* stored procedures of the server
Procedures == {"geodb_filter_by_bbox", "geodb_filter_raw"}

\* custom headers a caller passes
HeaderArgs == {NoneDict, EmptyDict, ("Prefer" :> "count=exact"), ("Accept" :> "text/csv")}

\* values a caller passes to update_dataset
UpdateValues ==
    {[type |-> "dict", items |-> ("column" :> 200)],
     [type |-> "dict", items |-> ("id" :> 1) @@ ("column" :> 200)],
     [type |-> "list", items |-> ("0" :> 1)]}

\* values a caller passes to insert_into_dataset
InsertValues ==
    {[type |-> "GeoDataFrame", columns |-> {"ID", "geometry"}, crs |-> "4326"],
     [type |-> "GeoDataFrame", columns |-> {"name", "geometry"}, crs |-> NoStr],
     [type |-> "DataFrame", columns |-> {"id", "name"}, crs |-> NoStr],
     [type |-> "list", columns |-> {}, crs |-> NoStr]}

\* query strings and SQL fragments a caller passes
Queries == {NoStr, "id=eq.1"}

\* limit and offset arguments a caller passes
LimitArgs == {None, 0, 2}

\* the WHERE, GROUP BY and ORDER BY arguments a caller passes to filter_raw
ClauseArgs ==
    {<<NoStr, NoStr, NoStr>>, <<"raba_id=1410", NoStr, NoStr>>,
     <<NoStr, "d_od", "id">>, <<"raba_id=1410", "d_od", "id">>}

\* the servers a client talks to
Servers ==
    {[definitions |-> {}, properties |-> {}, paths |-> Procedures],
     [definitions |-> {Dn(ServerUser, "tt")}, properties |-> {}, paths |-> Procedures],
     [definitions |-> {Dn(ServerUser, "tt"), Dn("public", "tt")}, properties |-> {},
      paths |-> Procedures],
     [definitions |-> {Dn(ServerUser, "tt")}, properties |-> {}, paths |-> {}]}

\* a new client and a server with some datasets and stored procedures
InitClient ==
    /\ init_(None, None, Inf)
    /\ kwargs = [collection |-> "land_use", query |-> "order=id"]
    /\ supplied = kwargs
    /\ table = Ids(0)
    /\ other = NoOther
    /\ whoami = NoStr
    /\ capabilities = NoCapabilities
    /\ server \in Servers
    /\ sent = <<>>
    /\ result = NoCall

\* the call op with arguments args ended as the run r
Finish(op, args, r) ==
    /\ whoami' = r.whoami
    /\ capabilities' = r.capabilities
    /\ sent' = r.sent
    /\ result' = [op |-> op, args |-> args, raised |-> r.raised, msg |-> r.msg, ret |-> r.ret]
    /\ UNCHANGED <<server, ivars>>

\* a caller calls GeoDBClient.get
get ==
    \E path \in {RootPath, TablePath(Dn(ServerUser, "tt"), NoStr)}, headers \in HeaderArgs :
        \E r \in Get(StartCall, path, headers) :
            Finish("get", [path |-> path, headers |-> headers], r)

\* a caller calls GeoDBClient.delete
delete ==
    \E path \in {TablePath(Dn(ServerUser, "tt"), "id=eq.1")}, headers \in HeaderArgs :
        \E r \in Delete(StartCall, path, headers) :
            Finish("delete", [path |-> path, headers |-> headers], r)

\* a caller calls GeoDBClient.patch
patch ==
    \E path \in {TablePath(Dn(ServerUser, "tt"), "id=eq.1")}, headers \in HeaderArgs :
        \E r \in Patch(StartCall, path, [type |-> "dict", items |-> ("column" :> 200)], headers) :
            Finish("patch", [path |-> path, headers |-> headers], r)

\* a caller calls GeoDBClient.post
post ==
    \E path \in {RpcPath("geodb_filter_raw")}, headers \in HeaderArgs :
        \E r \in Post(StartCall, path, [type |-> "dict", items |-> ("column" :> 200)], headers) :
            Finish("post", [path |-> path, headers |-> headers], r)

\* a caller calls GeoDBClient.update_dataset
update_dataset ==
    \E dataset \in Datasets, values \in UpdateValues, query \in {"id=eq.1"} :
        \E r \in UpdateDataset(StartCall, dataset, values, query) :
            Finish("update_dataset",
                   [dataset |-> dataset, values |-> values, query |-> query], r)

\* a caller calls GeoDBClient.insert_into_dataset
insert_into_dataset ==
    \E dataset \in {"tt"}, values \in InsertValues, upsert \in BOOLEAN,
       crs \in {NoStr, "3794"} :
        \E r \in InsertIntoDataset(StartCall, dataset, values, upsert, crs) :
            Finish("insert_into_dataset",
                   [dataset |-> dataset, values |-> values, upsert |-> upsert, crs |-> crs], r)

\* a caller calls GeoDBClient.filter
filter ==
    \E dataset \in Datasets, query \in Queries, namespace \in Namespaces :
        \E r \in Filter(StartCall, dataset, query, namespace) :
            Finish("filter",
                   [dataset |-> dataset, query |-> query, namespace |-> namespace], r)

\* a caller calls GeoDBClient.filter_by_bbox
filter_by_bbox ==
    \E dataset \in Datasets, limit \in {0, 2}, offset \in {0, 2}, namespace \in Namespaces :
        \E r \in FilterByBbox(StartCall, dataset, limit, offset, namespace) :
            Finish("filter_by_bbox",
                   [dataset |-> dataset, limit |-> limit, offset |-> offset,
                    namespace |-> namespace], r)

\* the arguments of a filter_raw call: every dataset and namespace with a plain
\* query, and every combination of clauses on the caller's own dataset
RawArgs ==
    {[dataset |-> d, where |-> NoStr, group |-> NoStr, order |-> NoStr,
      limit |-> None, offset |-> None, namespace |-> n] :
        d \in Datasets, n \in Namespaces} \cup
    {[dataset |-> "tt", where |-> c[1], group |-> c[2], order |-> c[3],
      limit |-> l, offset |-> o, namespace |-> NoStr] :
        c \in ClauseArgs, l \in LimitArgs, o \in LimitArgs}

\* a caller calls GeoDBClient.filter_raw
filter_raw ==
    \E a \in RawArgs :
        \E r \in FilterRaw(StartCall, a.dataset, "*", a.where, a.group, a.order, a.limit,
                           a.offset, a.namespace) :
            Finish("filter_raw", a, r)

NextClient ==
    get \/ delete \/ patch \/ post \/ update_dataset \/ insert_into_dataset \/
    filter \/ filter_by_bbox \/ filter_raw

SpecClient == InitClient /\ [][NextClient]_vars

\* ------------------------------------------- schema changes of a GeoDBClient
\* the schema after the server has run a stored procedure for the user: the
\* datasets are kept under the user's prefix, a property belongs to a dataset
ServerAfter(srv, req) ==
    LET p == req.payload
        mine(name) == Dn(ServerUser, name)
    IN  CASE req.path.rpc = "geodb_create_datasets" ->
               [srv EXCEPT !.definitions = @ \cup {mine(d.name) : d \in p.datasets},
                           !.properties = @ \cup UNION {{<<mine(d.name), c>> : c \in d.properties} :
                                                        d \in p.datasets}]
          [] req.path.rpc = "geodb_drop_datasets" ->
               [srv EXCEPT !.definitions = @ \ {mine(d) : d \in p.datasets},
                           !.properties = {c \in @ : c[1] \notin {mine(d) : d \in p.datasets}}]
          [] req.path.rpc = "geodb_add_properties" ->
               [srv EXCEPT !.properties =
                   IF mine(p.dataset) \in srv.definitions
                   THEN @ \cup {<<mine(p.dataset), c>> : c \in p.properties} ELSE @]
          [] req.path.rpc = "geodb_drop_properties" ->
               [srv EXCEPT !.properties = @ \ {<<mine(p.dataset), c>> : c \in p.properties}]
          [] OTHER -> srv

\* the server after the requests of a call: only a request answered with
\* success has changed it
ServerAfterCall(srv, exchanges) ==
    IF exchanges # <<>> /\ exchanges[Len(exchanges)].reply.status = "ok"
    THEN ServerAfter(srv, exchanges[Len(exchanges)])
    ELSE srv

\* property names a caller passes: one free column, with and without a
\* mandatory one
PropertyArgs == {{"name"}, {"name", "id"}, {"geometry"}}

\* the servers a schema-changing client talks to: with the user's dataset or
\* without, with the procedure to drop properties or without
SchemaServers ==
    {[definitions |-> d, properties |-> {}, paths |-> SchemaProcedures \ m] :
        d \in {{}, {Dn(ServerUser, "tt")}}, m \in {{}, {"geodb_drop_properties"}}}

InitSchema ==
    /\ init_(None, None, Inf)
    /\ kwargs = [collection |-> "land_use", query |-> "order=id"]
    /\ supplied = kwargs
    /\ table = Ids(0)
    /\ other = NoOther
    /\ whoami = NoStr
    /\ capabilities = NoCapabilities
    /\ server \in SchemaServers
    /\ sent = <<>>
    /\ result = NoCall

\* the schema-changing call op with arguments args ended as the run r
FinishSchema(op, args, r) ==
    /\ whoami' = r.whoami
    /\ capabilities' = r.capabilities
    /\ sent' = r.sent
    /\ result' = [op |-> op, args |-> args, raised |-> r.raised, msg |-> r.msg, ret |-> r.ret]
    /\ server' = ServerAfterCall(server, r.sent)
    /\ UNCHANGED ivars

\* a caller calls GeoDBClient.create_datasets
create_datasets ==
    \E datasets \in {{[name |-> "tt", properties |-> {"name"}]},
                      {[name |-> "tt", properties |-> {}], [name |-> "nope", properties |-> {}]}} :
        \E r \in CreateDatasets(StartCall, datasets) :
            FinishSchema("create_datasets", [datasets |-> datasets], r)

\* a caller calls GeoDBClient.create_dataset
create_dataset ==
    \E dataset \in {"tt"}, properties \in {{}, {"name"}} :
        \E r \in CreateDataset(StartCall, dataset, properties) :
            FinishSchema("create_dataset", [dataset |-> dataset, properties |-> properties], r)

\* a caller calls GeoDBClient.drop_dataset
drop_dataset ==
    \E dataset \in Datasets :
        \E r \in DropDataset(StartCall, dataset) :
            FinishSchema("drop_dataset", [dataset |-> dataset], r)

\* a caller calls GeoDBClient.drop_datasets
drop_datasets ==
    \E datasets \in {{"tt"}, {"tt", "nope"}} :
        \E r \in DropDatasets(StartCall, datasets) :
            FinishSchema("drop_datasets", [datasets |-> datasets], r)

\* a caller calls GeoDBClient.add_property
add_property ==
    \E dataset \in {"tt"}, prop \in {"name"} :
        \E r \in AddProperty(StartCall, dataset, prop) :
            FinishSchema("add_property", [dataset |-> dataset, properties |-> {prop}], r)

\* a caller calls GeoDBClient.add_properties
add_properties ==
    \E dataset \in {"tt"}, properties \in {{"name"}, {"name", "height"}} :
        \E r \in AddProperties(StartCall, dataset, properties) :
            FinishSchema("add_properties", [dataset |-> dataset, properties |-> properties], r)

\* a caller calls GeoDBClient.drop_property
drop_property ==
    \E dataset \in {"tt"}, prop \in {"name", "id"} :
        \E r \in DropProperty(StartCall, dataset, prop) :
            FinishSchema("drop_property", [dataset |-> dataset, properties |-> {prop}], r)

\* a caller calls GeoDBClient.drop_properties
drop_properties ==
    \E dataset \in {"tt"}, properties \in PropertyArgs :
        \E r \in DropProperties(StartCall, dataset, properties) :
            FinishSchema("drop_properties", [dataset |-> dataset, properties |-> properties], r)

NextSchema ==
    create_datasets \/ create_dataset \/ drop_dataset \/ drop_datasets \/
    add_property \/ add_properties \/ drop_property \/ drop_properties \/ filter

SpecSchema == InitSchema /\ [][NextSchema]_vars

\* ------------------------------------------------------------ properties
\* the start page in effect: 0 when the caller gave none
StartOf == PyOr(start_page, 0)

\* the pages handed to the consumer in the current pass, in order
Yielded ==
    LET ys == SelectSeq(calls, LAMBDA c : c.kind = "yield")
    IN  [k \in 1..Len(ys) |-> ys[k].out.rows]

\* C1: in a pass whose tunables were not changed since it began, the k-th
\* fetch (k = 0, 1, ...) is for page S + k and is passed offset = page * P and
\* limit = P, also when the caller had put an offset or limit of its own into
\* the forwarded keyword arguments.
C1_FetchOffsetLimit ==
    ~tuned =>
        \A k \in 1..Len(calls) :
            /\ calls[k].page = StartOf + (k - 1)
            /\ calls[k].req.offset = calls[k].page * page_size
            /\ calls[k].req.limit = page_size

C1_Witness ==
    /\ ~tuned
    /\ "offset" \in DOMAIN supplied /\ "limit" \in DOMAIN supplied
    /\ start_page = 1 /\ page_size = 2
    /\ Len(calls) = 2
    /\ calls[2].req.offset = 4 /\ calls[2].req.limit = 2

\* C2: for P > 0, S >= 0 and T >= S, a pass with unchanged tunables hands at
\* most T - S + 1 pages to the consumer, and every page it hands over has at
\* most P rows.
C2_PageCountAndSize ==
    (~tuned /\ page_size > 0 /\ StartOf >= 0 /\ stop_page >= StartOf) =>
        /\ stop_page # Inf => Len(Yielded) <= stop_page - StartOf + 1
        /\ \A k \in 1..Len(Yielded) : Len(Yielded[k]) <= page_size
        /\ last.kind = "yield" => Len(last.res) <= page_size

C2_Witness ==
    /\ ~tuned
    /\ page_size = 1 /\ start_page = 1 /\ stop_page = 2
    /\ Len(table) > 3
    /\ Len(Yielded) = 2
    /\ stopped

\* C3: a fetch that returns zero rows makes __next__ signal the end of the
\* iteration: no item handed to the consumer has zero rows.
C3_NoEmptyPage ==
    /\ (last.fetched /\ last.out.kind = "rows" /\ Len(last.out.rows) = 0)
          => (last.kind = "StopIteration" /\ last.res = NoResult)
    /\ last.kind = "yield" => (last.res = last.out.rows /\ Len(last.res) > 0)
    /\ \A k \in 1..Len(calls) :
          /\ calls[k].kind = "yield" => Len(calls[k].out.rows) > 0
          /\ (calls[k].out.kind = "rows" /\ Len(calls[k].out.rows) = 0)
                => calls[k].kind = "StopIteration"

C3_Witness ==
    /\ Len(calls) = 3
    /\ calls[1].kind = "yield" /\ calls[2].kind = "yield"
    /\ calls[3].out.kind = "rows" /\ Len(calls[3].out.rows) = 0
    /\ last.op = "next" /\ last.kind = "StopIteration" /\ last.fetched

\* C4: once __next__ has signalled the end of the iteration in a pass, every
\* later __next__ call of that pass (tunables untouched, no __iter__ in
\* between) whose fetch, if it makes one, returns also signals the end and
\* hands over no item, whatever the Page Fetcher returns.
C4_TerminationFinal ==
    [][(stopped /\ ~tuned /\ next_ /\ last'.kind # "error")
          => last'.kind = "StopIteration"]_vars

\* C5: an error raised by the Page Fetcher for page i leaves that __next__
\* call as the error: the call made one fetch only, the fetches and pages
\* before it stay as they were, and the error is not turned into the end of
\* the iteration nor into an item.
C5_ErrorPropagates ==
    [][(next_ /\ last'.fetched /\ last'.out.kind = "error") =>
        /\ last'.kind = "error" /\ last'.res = NoResult
        /\ stopped' = stopped
        /\ ~tuned => /\ Len(calls') = Len(calls) + 1
                     /\ SubSeq(calls', 1, Len(calls)) = calls
                     /\ calls'[Len(calls')].page = page
                     /\ calls'[Len(calls')].kind = "error"]_vars

C5_Witness ==
    /\ Len(calls) = 2
    /\ calls[1].page = 0 /\ calls[1].kind = "yield"
    /\ calls[2].page = 1 /\ calls[2].out.kind = "error"
    /\ last.op = "next" /\ last.kind = "error"
    /\ ~stopped

\* C6: entering iteration again after a completed pass, with the tunables as
\* they were and a start page S that is a page number, puts the cursor on S;
\* the fetches of the new pass carry the same (offset, limit) pairs as those
\* of the pass before, position by position, and the whole sequence is the
\* same once the new pass is completed too over the unchanged collection
\* without errors; every page handed over in the new pass was fetched in it.
C6_SecondPassRepeats ==
    (prev.known /\ ~tuned /\ start_page # None) =>
        /\ last.op = "iter" => page = start_page
        /\ Len(calls) > 0 => calls[1].page = start_page
        /\ \A k \in 1..Min(Len(calls), Len(prev.reqs)) : Pairs(calls)[k] = prev.reqs[k]
        /\ (prev.clean /\ ~mutated /\ NoError(calls) /\ Completed)
              => Pairs(calls) = prev.reqs
        /\ last.kind = "yield" => (last.fetched /\ Len(Yielded) <= Len(calls))

C6_Witness ==
    /\ prev.known /\ prev.clean
    /\ ~tuned /\ ~mutated /\ NoError(calls) /\ Completed
    /\ start_page = 1 /\ page_size = 1
    /\ Len(calls) = 2 /\ Len(Yielded) = 1
    /\ Pairs(calls) = <<(<<1, 1>>), (<<2, 1>>)>>
    /\ prev.reqs = Pairs(calls)

\* C7: the stop bound is inclusive: a __next__ call with the cursor on the
\* stop page T fetches page T and hands it over when it has rows; with the
\* stop page equal to the start page, a pass whose page S has rows hands over
\* exactly that one page.
C7_StopInclusive ==
    /\ [][(next_ /\ page # None /\ page = stop_page) =>
            /\ last'.fetched
            /\ kwargs'.offset = stop_page * page_size
            /\ (last'.out.kind = "rows" /\ Len(last'.out.rows) > 0)
                  => (last'.kind = "yield" /\ last'.res = last'.out.rows)
            /\ ~tuned => /\ Len(calls') = Len(calls) + 1
                         /\ calls'[Len(calls')].page = stop_page]_vars
    /\ []((/\ ~tuned /\ stop_page = StartOf /\ Len(calls) > 0
           /\ calls[1].out.kind = "rows" /\ Len(calls[1].out.rows) > 0)
            => (Yielded = <<calls[1].out.rows>> /\ Len(calls) = 1))

C7_Witness ==
    /\ ~tuned
    /\ start_page = 1 /\ stop_page = 1
    /\ Len(calls) = 1 /\ calls[1].page = 1 /\ calls[1].kind = "yield"
    /\ Len(Yielded) = 1
    /\ last.op = "next" /\ last.kind = "StopIteration" /\ ~last.fetched

\* C8: a __next__ call that finds the cursor beyond the stop page signals the
\* end of the iteration without a fetch and without moving the cursor; so a
\* pass with T < S makes no fetch and a pass bounded by T >= S makes at most
\* T - S + 1 fetches.
C8_BeyondStopNoFetch ==
    /\ [][(next_ /\ page # None /\ stop_page # Inf /\ page > stop_page) =>
            /\ last'.kind = "StopIteration" /\ ~last'.fetched
            /\ calls' = calls
            /\ page' = page
            /\ kwargs' = kwargs]_vars
    /\ [](~tuned =>
            /\ stop_page < StartOf => Len(calls) = 0
            /\ (stop_page >= StartOf /\ stop_page # Inf)
                  => Len(calls) <= stop_page - StartOf + 1)

C8_Witness ==
    /\ ~tuned
    /\ start_page = 1 /\ stop_page = 0
    /\ page = 1
    /\ Len(calls) = 0
    /\ last.op = "next" /\ last.kind = "StopIteration" /\ ~last.fetched
    /\ stopped

\* the rows with ids lo..hi in order, none when lo > hi
IdRange(lo, hi) == [j \in 1..(IF hi >= lo THEN hi - lo + 1 ELSE 0) |-> lo + j - 1]

\* n / p rounded up
Ceil(n, p) == (n + p - 1) \div p

RECURSIVE Concat(_)
\* the pages of a sequence of pages, one after the other
Concat(pages) ==
    IF pages = <<>> THEN <<>> ELSE Head(pages) \o Concat(Tail(pages))

\* C9: over a collection of N rows ordered by id that is not changed during
\* the pass, with start page 0, no stop page, page size P > 0 and no fetch
\* error, the i-th page handed over (i = 0, 1, ...) holds the rows
\* i*P+1 .. min((i+1)*P, N) in order, and when the pass has ended it has
\* handed over ceil(N / P) pages whose concatenation is the ordered read.
C9_FullRead ==
    (/\ ~tuned /\ ~mutated /\ NoError(calls)
     /\ StartOf = 0 /\ stop_page = Inf /\ page_size > 0) =>
        LET N == Len(table)
            P == page_size
        IN  /\ \A k \in 1..Len(Yielded) :
                  Yielded[k] = IdRange((k - 1) * P + 1, Min(k * P, N))
            /\ Len(Yielded) <= Ceil(N, P)
            /\ stopped => /\ Len(Yielded) = Ceil(N, P)
                          /\ Concat(Yielded) = table

C9_Witness ==
    /\ ~tuned /\ ~mutated /\ NoError(calls)
    /\ StartOf = 0 /\ stop_page = Inf /\ page_size = 2
    /\ Len(table) = 3
    /\ stopped
    /\ Yielded = <<(<<1, 2>>), (<<3>>)>>

\* C10: over an unchanged ordered collection with more than (T+1)*P rows, a
\* pass without fetch error with start page S <= T and stop page T hands over
\* as its k-th page (k = 0, 1, ...) the rows (S+k)*P+1 .. (S+k+1)*P, and when
\* it has ended it has handed over exactly T - S + 1 pages and ended on the
\* bound, no fetch having returned an empty page.
C10_BoundedRead ==
    (/\ ~tuned /\ ~mutated /\ NoError(calls)
     /\ page_size > 0 /\ StartOf <= stop_page /\ stop_page # Inf
     /\ Len(table) > (stop_page + 1) * page_size) =>
        LET S == StartOf
            T == stop_page
            P == page_size
        IN  /\ \A k \in 1..Len(Yielded) :
                  Yielded[k] = IdRange((S + k - 1) * P + 1, (S + k) * P)
            /\ Len(Yielded) <= T - S + 1
            /\ stopped => /\ Len(Yielded) = T - S + 1
                          /\ page = T + 1
                          /\ \A k \in 1..Len(calls) : calls[k].kind = "yield"

C10_Witness ==
    /\ ~tuned /\ ~mutated /\ NoError(calls)
    /\ page_size = 1 /\ start_page = 1 /\ stop_page = 2
    /\ Len(table) = 4
    /\ stopped
    /\ Yielded = <<(<<2>>), (<<3>>)>>

\* C11: a tunable assigned between two passes is the one the next pass runs
\* under: after stop_page is set to T' the stop page is T' and the start page
\* is what it was, after start_page is set to S' the start page is S', after
\* page_size is set to P' the page size is P' (the next pass takes its start,
\* bound, limit and offsets from these fields).
C11_TunablesTakeEffect ==
    [][/\ \A v \in 0..MaxStop :
            set_stop_page_to(v) => (stop_page' = v /\ start_page' = start_page)
       /\ \A v \in 0..MaxStart : set_start_page_to(v) => start_page' = v
       /\ \A v \in 1..MaxPageSize : set_page_size_to(v) => page_size' = v]_vars

\* C12: each of the three properties reads back the value just assigned to it.
C12_PropertyRoundTrip ==
    [][/\ \A v \in 0..MaxStart : set_start_page_to(v) => get_start_page' = v
       /\ \A v \in 0..MaxStop : set_stop_page_to(v) => get_stop_page' = v
       /\ \A v \in 1..MaxPageSize : set_page_size_to(v) => get_page_size' = v]_vars

\* C13: an iterator constructed with page size None, 0 or negative works with
\* the page size 10: its fetch is issued with limit 10 and offset page * 10.
C13_NonPositivePageSizeIsTen ==
    [][\A ps \in PageSizeArgs, sp \in StartPageArgs, tp \in StopPageArgs :
          (/\ init_(ps, sp, tp)
           /\ ps = None \/ ps <= 0
           /\ next_
           /\ last'.fetched)
          => (/\ page_size = DefaultPageSize
              /\ kwargs'.limit = DefaultPageSize
              /\ kwargs'.offset = page * DefaultPageSize)]_vars

\* C14: with the start page None the first fetch of a pass has offset 0, on a
\* new instance and after __iter__ alike; with the stop page left at its
\* default no __next__ ends a pass on the bound.
C14_AbsentStartIsPageZero ==
    /\ [][(/\ start_page = None
            /\ ~tuned
            /\ calls = <<>>
            /\ next_)
           => (last'.fetched /\ kwargs'.offset = 0)]_vars
    /\ [](stop_page = Inf
            => ~(last.op = "next" /\ last.kind = "StopIteration" /\ ~last.fetched))

\* C15: every call of the Page Fetcher carries iterate = FALSE, whatever
\* iterate flag the caller had put into the forwarded keyword arguments.
C15_IterateFalse ==
    /\ \A k \in 1..Len(calls) : calls[k].req.iterate = FALSE
    /\ last.fetched => kwargs.iterate = FALSE

C15_Witness ==
    /\ "iterate" \in DOMAIN supplied /\ supplied.iterate = TRUE
    /\ Len(calls) = 2
    /\ calls[1].req.iterate = FALSE /\ calls[2].req.iterate = FALSE
    /\ last.fetched /\ last.kind = "yield"

\* the keys of a request that are not the iterator's own three
OtherKeys(d) == DOMAIN d \ {"offset", "limit", "iterate"}

\* request d carries the caller's other parameters, each with the caller's value
SameOthers(d) ==
    /\ OtherKeys(d) = OtherKeys(supplied)
    /\ \A key \in OtherKeys(supplied) : d[key] = supplied[key]

\* C16: every keyword parameter of the caller other than offset, limit and
\* iterate reaches the Page Fetcher with the caller's value on every fetch of
\* every pass, and the forwarded arguments differ from the caller's in those
\* three keys only.
C16_OtherParamsForwarded ==
    /\ \A k \in 1..Len(calls) : SameOthers(calls[k].req)
    /\ SameOthers(kwargs)

C16_Witness ==
    /\ prev.known
    /\ Len(calls) = 2
    /\ calls[2].req.query = "order=id" /\ calls[2].req.collection = "land_use"
    /\ calls[2].req.offset = 2
    /\ kwargs = calls[2].req

\* C17: a __next__ that attempts a fetch advances the cursor by exactly 1,
\* whether the fetch gave rows, no rows or an error; a __next__ that attempts
\* none leaves the cursor where it is; so within a pass with unchanged
\* tunables the cursor is S plus the number of fetches attempted so far.
C17_CursorAdvance ==
    /\ [][next_ => IF last'.fetched THEN page' = page + 1 ELSE page' = page]_vars
    /\ []((~tuned /\ page # None) => page = StartOf + Len(calls))

C17_Witness ==
    /\ ~tuned
    /\ start_page = 1
    /\ Len(calls) = 2
    /\ calls[1].kind = "StopIteration" /\ calls[2].kind = "error"
    /\ last.fetched /\ last.kind = "error"
    /\ page = 3

\* C18: __iter__ puts the cursor on the start page S at whatever moment it is
\* called, in the middle of a pass too, and fetches nothing; the pass that
\* follows starts with page S instead of continuing where the cursor was.
C18_IterResetsCursor ==
    /\ [][iter_ => (page' = start_page /\ ~last'.fetched)]_vars
    /\ []((last.op = "iter" /\ ~tuned) => (page = start_page /\ calls = <<>>))
    /\ []((~tuned /\ Len(calls) > 0) => calls[1].page = StartOf)

\* __iter__ was called with the cursor on page 3 of a pass that began on page 1
\* and was not completed
C18_Witness ==
    /\ last.op = "iter"
    /\ ~tuned /\ ~prev.known
    /\ start_page = 1 /\ page = 1 /\ page_size = 2
    /\ "offset" \in DOMAIN kwargs /\ "offset" \notin DOMAIN supplied
    /\ kwargs.offset = 4

\* C20: fetching is pull-driven and sequential: a __next__ whose cursor is not
\* beyond the stop page calls the Page Fetcher once; nothing but __next__
\* fetches (the constructor and __iter__ fetch nothing ahead); and within a
\* pass with unchanged tunables each offset is the one before plus P, so the
\* offsets increase strictly for P > 0.
C20_PullDriven ==
    /\ [][(next_ /\ page # None /\ page <= stop_page)
            => (last'.fetched /\ (~tuned => Len(calls') = Len(calls) + 1))]_vars
    /\ [][(Len(calls') > Len(calls) \/ (last'.fetched /\ last' # last))
            => (next_ /\ Len(calls') <= Len(calls) + 1)]_vars
    /\ [](last.op \in {"init", "iter"} => (~last.fetched /\ (~tuned => calls = <<>>)))
    /\ [](~tuned =>
            \A k \in 2..Len(calls) :
                /\ calls[k].req.offset = calls[k - 1].req.offset + page_size
                /\ page_size > 0 => calls[k].req.offset > calls[k - 1].req.offset)

C20_Witness ==
    /\ ~tuned
    /\ start_page = 0 /\ page_size = 2 /\ stop_page = 2
    /\ Len(calls) = 3
    /\ Pairs(calls) = <<(<<0, 2>>), (<<2, 2>>), (<<4, 2>>)>>
    /\ page = 3

\* the fetches cs are those a lone iterator with start page S and page size P
\* makes: the k-th is for page S + k - 1, carries the caller's arguments with
\* that page's offset and limit, and has an outcome the Page Fetcher gives
\* for that request
AsAlone(cs, S, P) ==
    \A k \in 1..Len(cs) :
        /\ cs[k].page = S + (k - 1)
        /\ cs[k].req = Request(supplied, S + (k - 1), P)
        /\ cs[k].out \in PageFetcher(Request(supplied, S + (k - 1), P), table)

\* C19: two instances constructed separately do not disturb each other: in
\* every interleaving of their __iter__ and __next__ calls over an unchanged
\* collection, each issues the requests and receives the pages it would alone.
C19_Independent ==
    other.present =>
        /\ AsAlone(calls, start_page, page_size)
        /\ AsAlone(other.calls, other.start_page, other.page_size)

C19_Witness ==
    /\ other.present /\ other.shares
    /\ start_page = 0 /\ page_size = 2
    /\ other.start_page = 1 /\ other.page_size = 1
    /\ Len(calls) = 2 /\ Len(other.calls) = 2
    /\ calls[2].kind = "yield" /\ other.calls[2].kind = "yield"
    /\ kwargs = calls[2].req
    /\ page = 2 /\ other.page = 3

\* the larger of two numbers
Max(a, b) == IF a >= b THEN a ELSE b

\* the pass in progress started on a page number and has a finite stop page
BoundedPass == ~tuned /\ start_page # None /\ stop_page # Inf

\* the page on which an unbounded pass from S over the collection finds no
\* rows is within the pages the model explores
FitsCursor == StartOf + Ceil(Len(table), page_size) < MaxCursor

\* C21: a pass is finite.  With a finite stop page T and start page S it
\* makes at most T - S + 1 fetches, whatever they return, and the __next__
\* call after them ends it, so at most T - S + 2 calls; with no stop page,
\* P >= 1 and an unchanged finite collection, a consumer that keeps calling
\* __next__ gets the end of iteration (or the fetcher's error) eventually.
C21_PassIsFinite ==
    /\ [](BoundedPass => Len(calls) <= Max(stop_page - start_page + 1, 0))
    /\ [][(BoundedPass /\ next_ /\ Len(calls) = Max(stop_page - start_page + 1, 0))
            => (last'.kind = "StopIteration" /\ ~last'.fetched)]_vars
    /\ []((stop_page = Inf /\ page_size >= 1 /\ start_page # None /\ FitsCursor)
            => <>(stopped \/ last.kind = "error"))

C21_Witness ==
    /\ BoundedPass
    /\ start_page = 1 /\ stop_page = 2
    /\ Len(calls) = 2
    /\ calls[1].kind = "error" /\ calls[2].kind = "yield"
    /\ last.op = "next" /\ last.kind = "StopIteration" /\ ~last.fetched

\* C22: a request is immutable once issued and built apart from the caller's
\* mapping: the requests already handed to the Page Fetcher in a pass stay as
\* they were at every later step, and the keyword mapping the caller passed
\* in keeps the content the caller gave it.
C22_RequestImmutable ==
    /\ [][(~tuned' /\ calls' # <<>>)
            => (Len(calls') >= Len(calls) /\ SubSeq(calls', 1, Len(calls)) = calls)]_vars
    /\ [](kwargs = supplied)

\* C27: assigning one tunable leaves the other two and the cursor as they
\* were.
C27_SetterFrame ==
    [][/\ \A v \in 0..MaxStop :
            set_stop_page_to(v) => UNCHANGED <<start_page, page_size, page>>
       /\ \A v \in 0..MaxStart :
            set_start_page_to(v) => UNCHANGED <<stop_page, page_size, page>>
       /\ \A v \in 1..MaxPageSize :
            set_page_size_to(v) => UNCHANGED <<start_page, stop_page, page>>]_vars

\* C28: a fetch that failed on page i leaves the cursor on i + 1; the next
\* fetch of the pass is for page i + 1 with offset (i + 1) * P, and no page
\* is fetched twice in a pass: the failed page is not retried.
C28_FailedPageSkipped ==
    /\ [][(next_ /\ last'.fetched /\ last'.out.kind = "error") => page' = page + 1]_vars
    /\ [](~tuned =>
            /\ \A k \in 1..Len(calls) :
                  (calls[k].kind = "error" /\ k < Len(calls))
                  => /\ calls[k + 1].page = calls[k].page + 1
                     /\ calls[k + 1].req.offset = (calls[k].page + 1) * page_size
            /\ \A j, k \in 1..Len(calls) : j < k => calls[j].page < calls[k].page
            /\ (last.op = "next" /\ last.kind = "error")
                  => page = calls[Len(calls)].page + 1)

C28_Witness ==
    /\ ~tuned
    /\ start_page = 0 /\ page_size = 1
    /\ Len(calls) = 3
    /\ calls[1].kind = "yield" /\ calls[2].kind = "error" /\ calls[3].kind = "yield"
    /\ calls[2].page = 1 /\ calls[3].page = 2 /\ calls[3].req.offset = 2

\* a pass from page 0 with no stop page and P >= 1 that ran without error over
\* the unchanged collection to its first StopIteration
FullPassEnded ==
    /\ Completed
    /\ ~tuned /\ ~mutated /\ NoError(calls)
    /\ StartOf = 0 /\ stop_page = Inf /\ page_size >= 1

\* C29 (as claimed): a pass from page 0 with no stop page over N unchanged
\* rows has issued exactly floor(N / P) + 1 fetches when it ends, the last of
\* them returning no rows.
C29_FloorFetches ==
    FullPassEnded =>
        /\ Len(calls) = (Len(table) \div page_size) + 1
        /\ calls[Len(calls)].out.rows = <<>>

\* C29 (amended): a pass ends by exhaustion only on a page without rows; a
\* page with at least one row, also one with fewer than P rows, is handed
\* over and does not end the pass; a pass from page 0 with no stop page over
\* N unchanged rows has issued exactly ceil(N / P) + 1 fetches when it ends,
\* the last of them returning no rows and every one before it some.
C29_EmptyPageEnds ==
    /\ [][(next_ /\ last'.fetched /\ last'.out.kind = "rows" /\ Len(last'.out.rows) >= 1)
            => (last'.kind = "yield" /\ last'.res = last'.out.rows /\ stopped' = stopped)]_vars
    /\ [][(next_ /\ last'.fetched /\ last'.kind = "StopIteration")
            => (last'.out.kind = "rows" /\ last'.out.rows = <<>>)]_vars
    /\ [](FullPassEnded =>
            /\ Len(calls) = Ceil(Len(table), page_size) + 1
            /\ calls[Len(calls)].out.rows = <<>>
            /\ \A k \in 1..(Len(calls) - 1) : Len(calls[k].out.rows) >= 1)

C29_Witness ==
    /\ FullPassEnded
    /\ Len(table) = 3 /\ page_size = 2
    /\ Len(calls) = 3
    /\ calls[2].out.rows = <<3>> /\ calls[2].kind = "yield"
    /\ calls[3].out.rows = <<>>

\* C30: the start page is read when iteration begins and at no other time:
\* assigning start_page leaves the cursor and the forwarded arguments as
\* they are, every fetch afterwards is still for the cursor's page with
\* offset cursor * P, and __iter__ is the step that puts the cursor on the
\* assigned start page.
C30_StartReadAtIter ==
    /\ [][\A v \in 0..MaxStart :
            set_start_page_to(v) => (page' = page /\ kwargs' = kwargs)]_vars
    /\ [][(next_ /\ last'.fetched)
            => (kwargs'.offset = page * page_size /\ page' = page + 1)]_vars
    /\ [][iter_ => page' = start_page]_vars

\* the pass began on page 0 and fetched it; the start page was set to 1 during
\* the pass and the cursor is on page 1 as the fetch left it
C30_Witness ==
    /\ tuned
    /\ page_size = DefaultPageSize
    /\ start_page = 1
    /\ last.op = "next" /\ last.fetched
    /\ kwargs.offset = 0
    /\ page = 1
    /\ stop_page = Inf

\* the latest client call sent a request with this method
SentMethod(method) == \E i \in 1..Len(sent) : sent[i].method = method

\* the latest client call got through to the server with its own request: the
\* last request sent is not the one for the access token
SentOwnRequest == Len(sent) >= 2 /\ sent[Len(sent)].path.to # "oauth"

\* C23: get, delete and patch called with custom headers send their request
\* with the common headers updated by the custom ones, as post does.
C23_CustomHeadersMerged ==
    (/\ result.op \in {"get", "delete", "patch", "post"}
     /\ result.args.headers # NoneDict
     /\ SentOwnRequest)
    => sent[Len(sent)].headers = DictUpdate(CommonHeaders, result.args.headers)

\* C24: update_dataset with values that are not a dict raises and sends no
\* PATCH request, and once the dataset is known to exist the error is the
\* ValueError 'Format <type> not supported.'; with a dict, no PATCH payload
\* has the key 'id'.
C24_UpdateValidation ==
    result.op = "update_dataset" =>
        /\ result.args.values.type # "dict" =>
              /\ result.raised # "none"
              /\ ~SentMethod("PATCH")
              /\ (/\ whoami # NoStr
                  /\ capabilities.cached
                  /\ Dn(whoami, result.args.dataset) \in capabilities.definitions)
                 => (/\ result.raised = "ValueError"
                     /\ result.msg = FormatMsg(result.args.values.type))
        /\ \A i \in 1..Len(sent) :
              sent[i].method = "PATCH" => "id" \notin DOMAIN sent[i].payload.items

C24_Witness ==
    /\ result.op = "update_dataset"
    /\ result.args.dataset = "tt" /\ result.args.values.type = "list"
    /\ result.raised = "ValueError"
    /\ result.msg = "Format <class 'list'> not supported."
    /\ Len(sent) = 4
    /\ ~SentMethod("PATCH")

\* C25: insert_into_dataset with values that are not a GeoDataFrame raises a
\* ValueError saying the format is not supported (unless a request of the
\* call failed before), and sends no POST request to the dataset.
C25_InsertValidation ==
    (/\ result.op = "insert_into_dataset"
     /\ result.args.values.type # "GeoDataFrame")
    => /\ result.raised \notin {"GeoDBError", "HTTPError"}
          => (/\ result.raised = "ValueError"
              /\ result.msg = FormatMsg(result.args.values.type))
       /\ \A i \in 1..Len(sent) :
             ~(sent[i].method = "POST" /\ sent[i].path.to = "table")

\* the latest client call sent a data query: a request to a dataset or to a
\* filter procedure
SentDataQuery ==
    \E i \in 1..Len(sent) :
        sent[i].path.to = "table" \/ sent[i].path.rpc \in Procedures

\* the prefix of the dataset name in the latest filter call
FilterPrefix ==
    IF TruthyStr(result.args.namespace) THEN result.args.namespace ELSE whoami

\* C26: filter, filter_by_bbox and filter_raw on a dataset that is not in the
\* server's capabilities fail with the ValueError 'Dataset ... does not
\* exist' and send no data query.
C26_MissingDatasetRejected ==
    (/\ result.op \in {"filter", "filter_by_bbox", "filter_raw"}
     /\ FilterPrefix # NoStr
     /\ capabilities.cached
     /\ Dn(FilterPrefix, result.args.dataset) \notin server.definitions)
    => (/\ result.raised = "ValueError"
        /\ result.msg = DoesNotExistMsg
        /\ ~SentDataQuery)

C26_Witness ==
    /\ result.op = "filter_raw"
    /\ result.args.dataset = "nope" /\ result.args.namespace = NoStr
    /\ server.definitions = {Dn(ServerUser, "tt")}
    /\ result.raised = "ValueError" /\ result.msg = DoesNotExistMsg
    /\ Len(sent) = 4
    /\ ~SentDataQuery

\* C35: insert_into_dataset without upsert on values with an 'id' column
\* posts a CSV payload without the id column; with upsert the id column is
\* kept and the request carries Prefer: resolution=merge-duplicates.
C35_InsertDropsId ==
    \A i \in 1..Len(sent) :
        (/\ result.op = "insert_into_dataset"
         /\ sent[i].method = "POST" /\ sent[i].path.to = "table"
         /\ "id" \in {Lower(c) : c \in result.args.values.columns})
        => IF result.args.upsert
           THEN /\ "id" \in sent[i].payload.columns
                /\ "Prefer" \in DOMAIN sent[i].headers
                /\ sent[i].headers["Prefer"] = "resolution=merge-duplicates"
           ELSE "id" \notin sent[i].payload.columns

\* the place of a clause keyword in a SQL SELECT statement
ClauseRank(kw) ==
    CASE kw = "SELECT" -> 1 [] kw = "WHERE" -> 2 [] kw = "GROUP BY" -> 3
      [] kw = "ORDER BY" -> 4 [] kw = "LIMIT" -> 5 [] kw = "OFFSET" -> 6

\* the clauses of a query with this keyword
Clauses(qry, kw) == {i \in 1..Len(qry) : qry[i].kw = kw}

\* the number a LIMIT or OFFSET clause of the query gives, d without one
ClauseNum(qry, kw, d) ==
    IF Clauses(qry, kw) = {} THEN d ELSE qry[CHOOSE i \in Clauses(qry, kw) : TRUE].num

\* the rows of the ordered table t the database returns for a query: those
\* after the first OFFSET rows (none skipped without the clause), LIMIT of
\* them at most (all without the clause)
SelectedRows(qry, t) ==
    LET off == ClauseNum(qry, "OFFSET", 0)
    IN  Slice(t, off + 1, Min(off + ClauseNum(qry, "LIMIT", Len(t)), Len(t)))

\* the queries the latest filter_raw call posted
RawQueriesSent ==
    {sent[i].payload.qry : i \in {j \in 1..Len(sent) :
        sent[j].method = "POST" /\ sent[j].path.rpc = "geodb_filter_raw"}}

\* C34: the query filter_raw posts has its clauses in the order SELECT,
\* WHERE, GROUP BY, ORDER BY, LIMIT, OFFSET; WHERE, GROUP BY, ORDER BY and
\* LIMIT are there exactly when their argument is set, OFFSET exactly when
\* limit and offset are both set and not zero; with offset 0 the query
\* selects the rows it would select with OFFSET 0.
C34_RawClauseOrder ==
    result.op = "filter_raw" =>
        \A qry \in RawQueriesSent :
            LET a == result.args
                Has(kw) == Clauses(qry, kw) # {}
                Text(kw) == qry[CHOOSE i \in Clauses(qry, kw) : TRUE].text
            IN  /\ qry[1].kw = "SELECT"
                /\ \A i \in 1..(Len(qry) - 1) :
                      ClauseRank(qry[i].kw) < ClauseRank(qry[i + 1].kw)
                /\ Has("WHERE") <=> TruthyStr(a.where)
                /\ Has("WHERE") => Text("WHERE") = a.where
                /\ Has("GROUP BY") <=> TruthyStr(a.group)
                /\ Has("GROUP BY") => Text("GROUP BY") = a.group
                /\ Has("ORDER BY") <=> TruthyStr(a.order)
                /\ Has("ORDER BY") => Text("ORDER BY") = a.order
                /\ Has("LIMIT") <=> Truthy(a.limit)
                /\ Has("LIMIT") => ClauseNum(qry, "LIMIT", None) = a.limit
                /\ Has("OFFSET") <=> (Truthy(a.limit) /\ Truthy(a.offset))
                /\ Has("OFFSET") => ClauseNum(qry, "OFFSET", None) = a.offset
                /\ a.offset = 0 =>
                      \A n \in 0..MaxRows :
                          SelectedRows(qry, Ids(n)) =
                          SelectedRows(qry \o <<[kw |-> "OFFSET", num |-> 0]>>, Ids(n))

\* a filter_raw call with every clause: six clauses posted
C34_Witness ==
    /\ result.op = "filter_raw" /\ result.raised = "none"
    /\ TruthyStr(result.args.where) /\ result.args.limit = 2 /\ result.args.offset = 2
    /\ \E qry \in RawQueriesSent : Len(qry) = 6 /\ qry[6].kw = "OFFSET"

\* the data queries of the latest call: requests to a dataset or to a filter
\* procedure
DataQueries ==
    {i \in 1..Len(sent) : sent[i].path.to = "table" \/ sent[i].path.rpc \in Procedures}

\* C33: when the server answers the data query of filter, filter_by_bbox or
\* filter_raw with an empty payload, the call returns a frame without rows,
\* which the iterator's row test takes for the end of the data; when it
\* answers with an error status, the call raises GeoDBError and returns no
\* frame.
C33_EmptyIsFrameErrorIsRaised ==
    result.op \in {"filter", "filter_by_bbox", "filter_raw"} =>
        \A i \in DataQueries :
            /\ (sent[i].reply.status = "ok" /\ sent[i].reply.rows = 0)
               => (/\ result.raised = "none"
                   /\ result.ret.type \in {"DataFrame", "GeoDataFrame"}
                   /\ result.ret.rows = 0
                   /\ ~HasRows(Ids(result.ret.rows)))
            /\ sent[i].reply.status = "error"
               => (/\ result.raised = "GeoDBError"
                   /\ result.ret.type \notin {"DataFrame", "GeoDataFrame"})

\* filter_by_bbox got an empty payload and returned the empty frame
C33_Witness ==
    /\ result.op = "filter_by_bbox" /\ result.raised = "none"
    /\ \E i \in DataQueries : sent[i].reply.status = "ok" /\ sent[i].reply.rows = 0
    /\ result.ret = EmptyResult("GeoDataFrame")

\* the operations that change the schema
SchemaOps ==
    {"create_datasets", "create_dataset", "drop_dataset", "drop_datasets",
     "add_property", "add_properties", "drop_property", "drop_properties"}

\* the operations that empty the capabilities cache themselves
InvalidatingOps == SchemaOps \ {"add_property", "drop_property"}

\* the requests of a call that fetched the capabilities from the server
RootFetches(exchanges) ==
    {i \in 1..Len(exchanges) :
        exchanges[i].path.to = "root" /\ exchanges[i].reply.status = "ok"}

\* C31: once create_datasets, create_dataset, drop_dataset, drop_datasets,
\* add_properties or drop_properties has returned, the capabilities cache is
\* empty.
C31_CacheEmptyAfterSchemaChange ==
    (result.op \in InvalidatingOps /\ result.raised = "none") => ~capabilities.cached

\* a call fetches the capabilities at most once, and a call that does not
\* change the schema fetches them only when the cache is empty and otherwise
\* leaves the cache as it is
CapabilitiesFetchedOnce ==
    [][/\ Cardinality(RootFetches(sent')) <= 1
       /\ (capabilities.cached /\ result'.op \notin SchemaOps)
          => (RootFetches(sent') = {} /\ capabilities' = capabilities)]_vars

\* drop_properties has returned and the cache holds a property the server
\* no longer has
StaleAfterDropProperties ==
    /\ result.op = "drop_properties" /\ result.raised = "none"
    /\ capabilities.cached
    /\ capabilities.properties # server.properties

\* the requests of the latest call that ask the server to drop properties
DropRequests == {i \in 1..Len(sent) : sent[i].path.rpc = "geodb_drop_properties"}

\* C32: drop_properties and drop_property send no drop request that names a
\* mandatory column: with geometry, id, created_at or modified_at among the
\* properties a ValueError is raised and nothing is sent to
\* /rpc/geodb_drop_properties; nothing is sent to it either when the server's
\* capabilities lack the stored procedure.
C32_MandatoryColumnsKept ==
    result.op \in {"drop_properties", "drop_property"} =>
        /\ \A i \in DropRequests :
              sent[i].payload.properties \cap mandatory_properties = {}
        /\ result.args.properties \cap mandatory_properties # {}
           => (/\ result.raised = "ValueError"
               /\ result.msg = "Don't delete the following columns"
               /\ DropRequests = {})
        /\ "geodb_drop_properties" \notin server.paths
           => (result.raised # "none" /\ DropRequests = {})

\* drop_properties refused to drop id together with a free column
C32_Witness ==
    /\ result.op = "drop_properties"
    /\ result.args.properties = {"name", "id"}
    /\ result.raised = "ValueError"
    /\ DropRequests = {}

====
